---- MODULE Spec2Model ----
(***************************************************************************)
(* SDICL.h: getSemiIdealDevice, class OCL and class SDL_ShaderTexture.     *)
(*                                                                         *)
(* One process, one OCL object and one SDL_ShaderTexture object.  The      *)
(* program counter pc says which function is running and where it is; the  *)
(* operations of the two classes start only from pc = "idle" (the caller   *)
(* is single-threaded).  The only step that is not a step of the host      *)
(* program is KernelRun, the device executing an enqueued kernel.          *)
(***************************************************************************)
EXTENDS Integers, Sequences, FiniteSets, TLC

\* ------------------------------------------------------------------ bounds
MaxDevs == 3
MaxPlatforms == 2
MaxDim == 2
MaxKernels == 2

\* --------------------------------------------------------- program constants
\* The first three kernel arguments set by setShader
NumDefaultArgs == 3
\* bytes per pixel (B, G, R, A)
BytesPerPixel == 4
\* the status passed to exit() when the build fails
BuildFailExit == 1

\* ------------------------------------------------------------------ inputs
\* What CL_DEVICE_MAX_COMPUTE_UNITS and CL_DEVICE_MAX_CLOCK_FREQUENCY answer
\* for a device (both cl_uint): <<units, clock>>
DeviceKinds == {<<1, 0>>, <<1, 1>>, <<2, 1>>, <<1, 2>>, <<65536, 65536>>}
\* the kernel functions of the program
\* how many kernel files the caller may name
FileCounts == {0, 2}
Shaders == {"invert", "fill"}
Colors == {"black", "white"}
BlendModes == {"NONE", "BLEND"}

\* The default-constructed cl::Device (no device)
NullDevice == 0
\* a null pointer to a kernel
NullKernel == 0

\* ------------------------------------------------------ unsigned arithmetic
Half == 2 ^ 16

\* x * y for x, y < 2^16, as [hi, lo] with hi, lo < 2^16; no intermediate
\* value reaches 2^31
MulHalf(x, y) ==
    LET p1 == x * (y \div 256)
        p0 == x * (y % 256)
        low == (p1 % 256) * 256 + p0
    IN  [hi |-> (p1 \div 256) + (low \div Half), lo |-> low % Half]

\* The exact product a * b of two cl_uint values, in 16-bit limbs:
\* top * 2^32 + hi * 2^16 + lo
Product(a, b) ==
    LET a1 == a \div Half
        a0 == a % Half
        b1 == b \div Half
        b0 == b % Half
        low == MulHalf(a0, b0)
        x == MulHalf(a1, b0)
        y == MulHalf(a0, b1)
        mid == low.hi + x.lo + y.lo
    IN  [top |-> a1 * b1 + x.hi + y.hi + (mid \div Half),
         hi |-> mid % Half, lo |-> low.lo]

\* unsigned int thisClock = units * clock: the product modulo 2^32
ThisClock(d) ==
    LET p == Product(d.units, d.freq) IN [hi |-> p.hi, lo |-> p.lo]

\* A comparison that also takes an equal score
GreaterEq32(x, y) == x.hi > y.hi \/ (x.hi = y.hi /\ x.lo >= y.lo)

\* thisClock > maxClock on unsigned int
Greater32(x, y) == x.hi > y.hi \/ (x.hi = y.hi /\ x.lo > y.lo)

Zero32 == [hi |-> 0, lo |-> 0]

\* ------------------------------------------------------------- enumeration
\* The answers of cl::Platform::get and Platform::getDevices: a sequence of
\* platforms, each a sequence of devices [id, units, freq]; ids are distinct
\* handles, numbered in enumeration order.
FlatLists == UNION {[1..n -> DeviceKinds] : n \in 0..MaxDevs}

Splits(n, np) ==
    {plat \in [1..n -> 1..np] : \A i \in 1..n : \A j \in i..n : plat[i] <= plat[j]}

MkDevice(i, k) == [id |-> i, units |-> k[1], freq |-> k[2]]

PlatformDevices(flat, plat, p) ==
    LET idx == {i \in 1..Len(flat) : plat[i] = p}
        first == IF idx = {} THEN 1 ELSE CHOOSE i \in idx : \A j \in idx : i <= j
    IN  [k \in 1..Cardinality(idx) |->
            MkDevice(first + k - 1, flat[first + k - 1])]

Enumerations ==
    UNION {UNION {{[p \in 1..np |-> PlatformDevices(flat, plat, p)] :
                      plat \in Splits(Len(flat), np)} :
                  flat \in FlatLists} :
           np \in 0..MaxPlatforms}

\* ------------------------------------------------------------------- state
VARIABLES
    proc,         \* "running", "exited" (exit(1)) or "crashed"
    pc,           \* where the host program is
    out,          \* what was written to std::cout
    exitStatus,   \* the status given to exit(), -1 while running
    \* getSemiIdealDevice's locals
    platforms, devices, pIdx, dIdx, bestDevice, maxClock,
    \* OCL
    oclState,     \* "none", "constructing", "alive", "destroyed"
    kernelFiles,  \* the constructor's argument: how many files
    device, sources, context, queue, program, built,
    pending,      \* the kernel enqueued on the queue and not yet executed
    \* SDL_ShaderTexture
    texState,     \* "none", "alive", "destroyed"
    texture, rect, pixels, pixelBuffer, shaderKernel, shader,
    kernels,      \* every cl::Kernel object setShader has created
    steps         \* the device calls of the running shade()

scanVars == <<platforms, devices, pIdx, dIdx, bestDevice, maxClock>>
oclVars == <<oclState, kernelFiles, device, sources, context, queue, program, built>>
texVars == <<texState, texture, rect, pixels, pixelBuffer, shaderKernel, shader,
             kernels, steps>>
procVars == <<proc, out, exitStatus>>
vars == <<procVars, pc, scanVars, oclVars, pending, texVars>>

Init ==
    /\ proc = "running" /\ pc = "idle" /\ out = <<>> /\ exitStatus = -1
    /\ platforms = <<>> /\ devices = <<>> /\ pIdx = 0 /\ dIdx = 0
    /\ bestDevice = NullDevice /\ maxClock = Zero32
    /\ oclState = "none" /\ kernelFiles = 0
    /\ device = NullDevice /\ sources = 0
    /\ context = "null" /\ queue = "null" /\ program = "null" /\ built = FALSE
    /\ pending = NullKernel
    /\ texState = "none"
    /\ texture = [state |-> "null", data |-> "undef", blend |-> "NONE"]
    /\ rect = [w |-> 0, h |-> 0]
    /\ pixels = [len |-> 0, color |-> "black"]
    /\ pixelBuffer = [state |-> "null", size |-> 0, data |-> "undef"]
    /\ shaderKernel = NullKernel /\ shader = ""
    /\ kernels = <<>> /\ steps = <<>>

Idle == proc = "running" /\ pc = "idle"

\* ------------------------------------------------------ getSemiIdealDevice
\* OCL ocl(kernelFiles): the constructor starts by calling getSemiIdealDevice
OCL_Construct ==
    /\ Idle /\ oclState = "none"
    /\ \E n \in FileCounts : kernelFiles' = n
    /\ oclState' = "constructing"
    /\ pc' = "getPlatforms"
    /\ UNCHANGED <<procVars, scanVars, device, sources, context, queue, program,
                   built, pending, texVars>>

\* cl::Platform::get(&platforms); bestDevice; maxClock = 0
GetPlatforms ==
    /\ proc = "running" /\ pc = "getPlatforms"
    /\ platforms' \in Enumerations
    /\ devices' = <<>> /\ bestDevice' = NullDevice /\ maxClock' = Zero32
    /\ pIdx' = 1 /\ dIdx' = 0
    /\ pc' = "forPlatform"
    /\ UNCHANGED <<procVars, oclVars, pending, texVars>>

\* for (p : platforms) { p.getDevices(CL_DEVICE_TYPE_ALL, &devices); ...
ForPlatform ==
    /\ proc = "running" /\ pc = "forPlatform"
    /\ IF pIdx <= Len(platforms)
       THEN /\ devices' = platforms[pIdx]
            /\ dIdx' = 1
            /\ pc' = "forDevice"
       ELSE /\ pc' = "returnDevice"
            /\ UNCHANGED <<devices, dIdx>>
    /\ UNCHANGED <<procVars, platforms, pIdx, bestDevice, maxClock, oclVars,
                   pending, texVars>>

\* The body of the inner loop on device d
Consider(d, best, maxc) ==
    IF Greater32(ThisClock(d), maxc)
    THEN [best |-> d.id, maxc |-> ThisClock(d)]
    ELSE [best |-> best, maxc |-> maxc]

\* for (d : devices) { ... }
ForDevice ==
    /\ proc = "running" /\ pc = "forDevice"
    /\ IF dIdx <= Len(devices)
       THEN LET r == Consider(devices[dIdx], bestDevice, maxClock)
            IN  /\ bestDevice' = r.best
                /\ maxClock' = r.maxc
                /\ dIdx' = dIdx + 1
                /\ UNCHANGED <<pIdx, pc>>
       ELSE /\ pIdx' = pIdx + 1
            /\ pc' = "forPlatform"
            /\ UNCHANGED <<bestDevice, maxClock, dIdx>>
    /\ UNCHANGED <<procVars, platforms, devices, oclVars, pending, texVars>>

\* return bestDevice; device = getSemiIdealDevice(): the locals are gone
ReturnDevice ==
    /\ proc = "running" /\ pc = "returnDevice"
    /\ device' = bestDevice
    /\ platforms' = <<>> /\ devices' = <<>> /\ pIdx' = 0 /\ dIdx' = 0
    /\ bestDevice' = NullDevice /\ maxClock' = Zero32
    /\ pc' = "newContext"
    /\ UNCHANGED <<procVars, oclState, kernelFiles, sources, context, queue,
                   program, built, pending, texVars>>

\* --------------------------------------------------------------- OCL::OCL
\* context = new cl::Context({device}): no status is looked at
NewContext ==
    /\ proc = "running" /\ pc = "newContext"
    /\ context' = "live"
    /\ pc' = "newQueue"
    /\ UNCHANGED <<procVars, scanVars, oclState, kernelFiles, device, sources,
                   queue, program, built, pending, texVars>>

\* queue = new cl::CommandQueue(*context, device): an in-order queue
NewQueue ==
    /\ proc = "running" /\ pc = "newQueue"
    /\ queue' = "live"
    /\ pc' = "loadSources"
    /\ UNCHANGED <<procVars, scanVars, oclState, kernelFiles, device, sources,
                   context, program, built, pending, texVars>>

\* for (filepath : kernelFiles) sources.push_back(...)
LoadSources ==
    /\ proc = "running" /\ pc = "loadSources"
    /\ sources' = kernelFiles
    /\ pc' = "build"
    /\ UNCHANGED <<procVars, scanVars, oclState, kernelFiles, device, context,
                   queue, program, built, pending, texVars>>

\* A build whose status is never looked at
BuildFailedIgnored(ok) == FALSE

\* if (program->build({device}) != CL_SUCCESS), for a build that ended ok or not
BuildFailed(ok) == ~ok

\* program = new cl::Program(*context, sources); program->build({device})
BuildProgram ==
    /\ proc = "running" /\ pc = "build"
    /\ program' = "live"
    /\ \E ok \in BOOLEAN :
          /\ built' = ok
          /\ IF BuildFailed(ok)
             THEN pc' = "printLog" /\ UNCHANGED oclState
             ELSE pc' = "idle" /\ oclState' = "alive"
    /\ UNCHANGED <<procVars, scanVars, kernelFiles, device, sources, context,
                   queue, pending, texVars>>

\* std::cout << " Error building: " << build log
PrintBuildLog ==
    /\ proc = "running" /\ pc = "printLog"
    /\ out' = Append(out, " Error building: ")
    /\ pc' = "exit"
    /\ UNCHANGED <<proc, exitStatus, scanVars, oclVars, pending, texVars>>

\* exit(1)
ExitProcess ==
    /\ proc = "running" /\ pc = "exit"
    /\ proc' = "exited"
    /\ exitStatus' = BuildFailExit
    /\ pc' = "halt"
    /\ UNCHANGED <<out, scanVars, oclVars, pending, texVars>>

\* OCL::~OCL: delete context; delete queue; delete program
OCL_Destroy ==
    /\ Idle /\ oclState = "alive"
    /\ context' = "released" /\ queue' = "released" /\ program' = "released"
    /\ oclState' = "destroyed"
    /\ UNCHANGED <<procVars, pc, scanVars, kernelFiles, device, sources, built,
                   pending, texVars>>

\* ------------------------------------------------- undefined behaviour
\* A call through a pointer to a deleted object (ocl->context, ocl->queue,
\* ocl->program after ~OCL) either kills the process or finds the object's
\* storage still intact and goes on as if it were alive.
Crash ==
    /\ proc' = "crashed"
    /\ pc' = "halt"
    /\ UNCHANGED <<out, exitStatus, scanVars, oclVars, pending, texVars>>

\* ------------------------------------------------------ SDL_ShaderTexture
\* std::vector<unsigned char>(width * height * 4, 0)
PixelCount(w, h) == w * h * BytesPerPixel

\* A buffer of one byte per pixel
BufferBytesPerPixel(pix) == pix.len \div BytesPerPixel

\* sizeof(unsigned char) * pixels.size(), the size given to cl::Buffer
BufferBytes(pix) == 1 * pix.len

\* sizeof(unsigned char) * pixels.size(), the size given to
\* enqueueWriteBuffer and enqueueReadBuffer
TransferBytes(pix) == 1 * pix.len

\* SDL_UpdateTexture(texture, nullptr, pixels.data(), rect.w * 4)
UpdateTexture(tex, pix) == [tex EXCEPT !.data = pix.color]

\* A setShader that forgets delete shaderKernel
ReleaseKernelLeak(ks, k) == ks

\* delete k, for a cl::Kernel* k (nothing when k is null)
ReleaseKernel(ks, k) ==
    IF k = NullKernel
    THEN ks
    ELSE [ks EXCEPT ![k] = [state |-> "released", name |-> "", args |-> <<>>]]

\* Width and height in the wrong order
DefaultArgsSwapped(r) == <<"pixelBuffer", r.h, r.w>>

\* setArg(0, *pixelBuffer); setArg(1, rect.w); setArg(2, rect.h)
DefaultArgs(r) == <<"pixelBuffer", r.w, r.h>>

\* new cl::Kernel(*(ocl->program), shader.c_str()) and its first arguments
NewKernel(name, r) == [state |-> "live", name |-> name, args |-> DefaultArgs(r)]

\* What the kernel function called name makes of the buffer's content
ShaderOut(name, v) ==
    IF name = "fill" THEN "white"
    ELSE IF v = "black" THEN "white" ELSE "black"

\* SDL_ShaderTexture(renderer, ocl, width, height), with a pointer to the OCL
\* object, which may have been destroyed
Tex_ConstructOk(w, h) ==
    LET pix == [len |-> PixelCount(w, h), color |-> "black"]
    IN  /\ rect' = [w |-> w, h |-> h]
        /\ pixels' = pix
        /\ pixelBuffer' = [state |-> "live", size |-> BufferBytes(pix),
                           data |-> "undef"]
        /\ texture' = UpdateTexture([state |-> "live", data |-> "undef",
                                     blend |-> "NONE"], pix)
        /\ texState' = "alive"
        /\ UNCHANGED <<procVars, pc, scanVars, oclVars, pending, shaderKernel,
                       shader, kernels, steps>>

Tex_Construct ==
    /\ Idle /\ texState = "none" /\ oclState \in {"alive", "destroyed"}
    /\ \/ \E w \in 1..MaxDim : \E h \in 1..MaxDim : Tex_ConstructOk(w, h)
       \/ context # "live" /\ Crash

\* ~SDL_ShaderTexture: SDL_DestroyTexture; delete pixelBuffer; delete shaderKernel
Tex_Destroy ==
    /\ Idle /\ texState = "alive"
    /\ texture' = [texture EXCEPT !.state = "destroyed"]
    /\ pixelBuffer' = [pixelBuffer EXCEPT !.state = "released"]
    /\ kernels' = ReleaseKernel(kernels, shaderKernel)
    /\ texState' = "destroyed"
    /\ UNCHANGED <<procVars, pc, scanVars, oclVars, pending, rect, pixels,
                   shaderKernel, shader, steps>>

\* blank(): memset(&pixels[0], 0, pixels.size())
Blank ==
    /\ Idle /\ texState = "alive"
    /\ pixels' = [pixels EXCEPT !.color = "black"]
    /\ UNCHANGED <<procVars, pc, scanVars, oclVars, pending, texState, texture,
                   rect, pixelBuffer, shaderKernel, shader, kernels, steps>>

\* update()
Update ==
    /\ Idle /\ texState = "alive"
    /\ texture' = UpdateTexture(texture, pixels)
    /\ UNCHANGED <<procVars, pc, scanVars, oclVars, pending, texState, rect,
                   pixels, pixelBuffer, shaderKernel, shader, kernels, steps>>

\* setBlendMode(blend)
SetBlendMode ==
    /\ Idle /\ texState = "alive"
    /\ \E b \in BlendModes : texture' = [texture EXCEPT !.blend = b]
    /\ UNCHANGED <<procVars, pc, scanVars, oclVars, pending, texState, rect,
                   pixels, pixelBuffer, shaderKernel, shader, kernels, steps>>

\* setShader(shader)
SetShaderOk(name) ==
    /\ shader' = name
    /\ kernels' = Append(ReleaseKernel(kernels, shaderKernel), NewKernel(name, rect))
    /\ shaderKernel' = Len(kernels) + 1
    /\ UNCHANGED <<procVars, pc, scanVars, oclVars, pending, texState, texture,
                   rect, pixels, pixelBuffer, steps>>

\* setShader dies at *(ocl->program), after delete shaderKernel
SetShaderCrash(name) ==
    /\ shader' = name
    /\ kernels' = ReleaseKernel(kernels, shaderKernel)
    /\ proc' = "crashed"
    /\ pc' = "halt"
    /\ UNCHANGED <<out, exitStatus, scanVars, oclVars, pending, texState, texture,
                   rect, pixels, pixelBuffer, shaderKernel, steps>>

SetShader ==
    /\ Idle /\ texState = "alive" /\ Len(kernels) < MaxKernels
    /\ \E name \in Shaders :
          \/ SetShaderOk(name)
          \/ program # "live" /\ SetShaderCrash(name)

\* The caller's shaderKernel->setArg(3, 255)
SetExtraArg ==
    /\ Idle /\ texState = "alive" /\ shaderKernel # NullKernel
    /\ kernels' = [kernels EXCEPT ![shaderKernel].args =
                      [i \in 1..(NumDefaultArgs + 1) |->
                          IF i <= NumDefaultArgs THEN @[i] ELSE 255]]
    /\ UNCHANGED <<procVars, pc, scanVars, oclVars, pending, texState, texture,
                   rect, pixels, pixelBuffer, shaderKernel, shader, steps>>

\* ------------------------------------------------------------------ shade()
\* One device call: what, how many bytes or work items, which kernel, and the
\* pixel data moved
Step(op, n, k, v) == [op |-> op, n |-> n, kernel |-> k, data |-> v]

ShadeCall ==
    /\ Idle /\ texState = "alive"
    /\ pc' = "shadeWrite"
    /\ steps' = <<>>
    /\ UNCHANGED <<procVars, scanVars, oclVars, pending, texState, texture, rect,
                   pixels, pixelBuffer, shaderKernel, shader, kernels>>

\* ocl->queue->enqueueWriteBuffer(*pixelBuffer, CL_TRUE, 0, size, pixels.data())
ShadeWrite ==
    /\ proc = "running" /\ pc = "shadeWrite"
    /\ \/ /\ pixelBuffer' = [pixelBuffer EXCEPT !.data = pixels.color]
          /\ steps' = Append(steps, Step("upload", TransferBytes(pixels), NullKernel,
                                      pixels.color))
          /\ pc' = "shadeDispatch"
          /\ UNCHANGED <<procVars, scanVars, oclVars, pending, texState, texture,
                         rect, pixels, shaderKernel, shader, kernels>>
       \/ queue # "live" /\ Crash

\* ocl->queue->enqueueNDRangeKernel(*shaderKernel, NullRange, NDRange(w*h), NullRange)
\* With shaderKernel null the call reads through a null pointer: the process
\* dies, or the call fails and nothing is enqueued.
ShadeDispatch ==
    /\ proc = "running" /\ pc = "shadeDispatch"
    /\ \/ /\ pending' = shaderKernel
          /\ steps' = Append(steps, Step("dispatch", rect.w * rect.h, shaderKernel,
                                      "none"))
          /\ pc' = "shadeFinish"
          /\ UNCHANGED <<procVars, scanVars, oclVars, texState, texture, rect,
                         pixels, pixelBuffer, shaderKernel, shader, kernels>>
       \/ (queue # "live" \/ shaderKernel = NullKernel) /\ Crash

\* The device runs the enqueued kernel on the buffer
KernelRun ==
    /\ proc = "running" /\ pending # NullKernel
    /\ pixelBuffer' = [pixelBuffer EXCEPT
                          !.data = ShaderOut(kernels[pending].name, @)]
    /\ pending' = NullKernel
    /\ UNCHANGED <<procVars, pc, scanVars, oclVars, texState, texture, rect,
                   pixels, shaderKernel, shader, kernels, steps>>

\* What finish() waits for: every enqueued command has completed
QueueDrained == pending = NullKernel

\* ocl->queue->finish()
ShadeFinish ==
    /\ proc = "running" /\ pc = "shadeFinish"
    /\ \/ /\ QueueDrained
          /\ steps' = Append(steps, Step("finish", 0, NullKernel, "none"))
          /\ pc' = "shadeRead"
          /\ UNCHANGED <<procVars, scanVars, oclVars, pending, texState, texture,
                         rect, pixels, pixelBuffer, shaderKernel, shader, kernels>>
       \/ queue # "live" /\ Crash

\* ocl->queue->enqueueReadBuffer(*pixelBuffer, CL_TRUE, 0, size, pixels.data())
ShadeRead ==
    /\ proc = "running" /\ pc = "shadeRead"
    /\ \/ /\ pixels' = [pixels EXCEPT !.color = pixelBuffer.data]
          /\ steps' = Append(steps, Step("download", TransferBytes(pixels), NullKernel,
                                      pixelBuffer.data))
          /\ pc' = "shadeReturn"
          /\ UNCHANGED <<procVars, scanVars, oclVars, pending, texState, texture,
                         rect, pixelBuffer, shaderKernel, shader, kernels>>
       \/ queue # "live" /\ Crash

\* shade() returns to its caller
ShadeReturn ==
    /\ proc = "running" /\ pc = "shadeReturn"
    /\ pc' = "idle"
    /\ steps' = <<>>
    /\ UNCHANGED <<procVars, scanVars, oclVars, pending, texState, texture, rect,
                   pixels, pixelBuffer, shaderKernel, shader, kernels>>

\* ----------------------------------------------------------- specification
Next ==
    \/ OCL_Construct \/ GetPlatforms \/ ForPlatform \/ ForDevice \/ ReturnDevice
    \/ NewContext \/ NewQueue \/ LoadSources \/ BuildProgram \/ PrintBuildLog
    \/ ExitProcess \/ OCL_Destroy
    \/ Tex_Construct \/ Tex_Destroy \/ Blank \/ Update \/ SetBlendMode
    \/ SetShader \/ SetExtraArg
    \/ ShadeCall \/ ShadeWrite \/ ShadeDispatch \/ KernelRun \/ ShadeFinish
    \/ ShadeRead \/ ShadeReturn

Spec == Init /\ [][Next]_vars

\* ------------------------------------------------------------------ claims
\* The devices enumerated by the running getSemiIdealDevice
Enumerated == UNION {{platforms[p][i] : i \in 1..Len(platforms[p])} :
                     p \in 1..Len(platforms)}

\* The score of the claims: compute units times clock frequency, exactly
Score(d) == Product(d.units, d.freq)

ScoreGeq(x, y) ==
    \/ x.top > y.top
    \/ x.top = y.top /\ x.hi > y.hi
    \/ x.top = y.top /\ x.hi = y.hi /\ x.lo >= y.lo

ScorePositive(x) == x.top > 0 \/ x.hi > 0 \/ x.lo > 0

MaxScoreDevices == {d \in Enumerated : \A e \in Enumerated : ScoreGeq(Score(d), Score(e))}

ShadePcs == {"shadeWrite", "shadeDispatch", "shadeFinish", "shadeRead"}

FourSteps == <<"upload", "dispatch", "finish", "download">>

StepOps == [i \in 1..Len(steps) |-> steps[i].op]

\* C1: whenever devices are enumerated, getSemiIdealDevice returns one of
\* them, and its score (units times clock) is at least every device's score.
C1_ReturnsMaxScore ==
    (pc = "returnDevice" /\ Enumerated # {}) =>
        \E d \in MaxScoreDevices : d.id = bestDevice

\* C2: when several devices share the maximum score, the one returned is the
\* first of them in enumeration order.
C2_FirstOfTies ==
    (pc = "returnDevice" /\ Cardinality(MaxScoreDevices) >= 2) =>
        /\ \E d \in MaxScoreDevices : d.id = bestDevice
        /\ \A d \in MaxScoreDevices : bestDevice <= d.id

\* C3: every call of shade() performs exactly the four device steps upload,
\* dispatch, finish, download in this order, the download never starts while
\* the kernel is still pending, and when shade() returns the pixel array
\* holds the dispatched kernel's output on the uploaded pixels.
C3_ShadeFourSteps ==
    /\ \E n \in 0..4 : StepOps = SubSeq(FourSteps, 1, n)
    /\ pc \in {"shadeRead", "shadeReturn"} => pending = NullKernel
    /\ ~(proc = "crashed" /\ Len(steps) \in 1..3)
    /\ pc = "shadeReturn" =>
          /\ StepOps = FourSteps
          /\ steps[2].kernel # NullKernel
          /\ steps[4].data = ShaderOut(kernels[steps[2].kernel].name, steps[1].data)
          /\ pixels.color = steps[4].data

\* The order of C3 in the calls made with a kernel set and the queue alive
ShadeOrderWithKernel ==
    (shaderKernel # NullKernel /\ queue = "live") => C3_ShadeFourSteps

\* C4: whenever shade() dispatches, shaderKernel is a non-null kernel created
\* by an earlier setShader() and still alive.
C4_KernelSetBeforeShade ==
    (proc = "running" /\ pc = "shadeDispatch") =>
        /\ shaderKernel # NullKernel
        /\ shaderKernel \in 1..Len(kernels)
        /\ kernels[shaderKernel].state = "live"

\* C5: once the texture object is constructed, the device buffer's size equals
\* the pixel array's length, both are w*h*4, and every upload and download of
\* shade() moves exactly that many bytes.
C5_BufferSizeEqualsPixels ==
    texState = "alive" =>
        /\ pixelBuffer.size = pixels.len
        /\ pixels.len = rect.w * rect.h * 4
        /\ \A i \in 1..Len(steps) :
              steps[i].op \in {"upload", "download"} =>
                  steps[i].n = rect.w * rect.h * 4

C5_Witness ==
    /\ texState = "alive" /\ pc = "shadeReturn" /\ Len(steps) = 4
    /\ rect.w = 2 /\ rect.h = 1 /\ pixelBuffer.size = 8
    /\ shaderKernel # NullKernel

C7_BuildFailureExits ==
    /\ proc = "exited" =>
          /\ exitStatus = 1 /\ out = <<" Error building: ">>
          /\ ~built /\ oclState = "constructing" /\ texState = "none"
    /\ proc # "exited" => exitStatus = -1
    /\ (oclState = "constructing" /\ program # "null" /\ ~built) =>
          (pc \in {"printLog", "exit"} \/ proc = "exited")
    /\ pc = "exit" => out = <<" Error building: ">>
    /\ oclState \in {"alive", "destroyed"} => (built /\ out = <<>>)
    /\ built => proc # "exited"

C7_Witness == proc = "exited" /\ program = "live" /\ ~built

\* C8: while the texture object is alive its buffer and its kernel are alive,
\* and whenever shade() is about to use the command queue the queue has not
\* been released.
C8_HandlesTiedToTexture ==
    (proc = "running" /\ texState = "alive") =>
        /\ pixelBuffer.state = "live"
        /\ shaderKernel # NullKernel => kernels[shaderKernel].state = "live"
        /\ pc \in ShadePcs => queue = "live"

C10_state ==
    (proc = "running" /\ texState = "alive") =>
        /\ {k \in 1..Len(kernels) : kernels[k].state = "live"} =
              (IF shaderKernel = NullKernel THEN {} ELSE {shaderKernel})
        /\ shaderKernel # NullKernel =>
              /\ kernels[shaderKernel].name = shader
              /\ \A i \in 1..Len(steps) :
                    steps[i].op = "dispatch" => steps[i].kernel = shaderKernel

C10_step ==
    (proc' = "running" /\ shaderKernel' # shaderKernel) =>
        /\ shaderKernel' = Len(kernels) + 1
        /\ Len(kernels'[shaderKernel'].args) = 3
        /\ kernels'[shaderKernel'].name = shader'

\* C10: the state part in every state and the step part in every step
C10_OneLiveKernel == []C10_state /\ [][C10_step]_vars

C10_Witness ==
    /\ proc = "running" /\ pc = "shadeFinish"
    /\ Len(kernels) = 2 /\ kernels[1].state = "released"
    /\ steps[2].kernel = 2 /\ shader = "fill"
    /\ Len(kernels[2].args) = 3

====
